---- MODULE Spec2Model ----
(***************************************************************************)
(* Portfolio generator: the resume store, the session gate and the PDF     *)
(* export handler GET /resume/pdf, with the JSON list-field normalizer.    *)
(*                                                                         *)
(* JavaScript values are encoded as follows.                               *)
(*   scalar text      a string; NULL and UNDEFINED are the two absent ones *)
(*   list-column text [ty, toks]: ty is "null", "undefined" or "string",   *)
(*                    toks the lexemes of the string                       *)
(*   JSON value       [k, o, e]: k the kind, o the members of an object,   *)
(*                    e the elements of an array                           *)
(***************************************************************************)
EXTENDS Integers, Sequences, FiniteSets, TLC

VARIABLES
  users,      \* rows of table users
  resumes,    \* rows of table resumes
  session,    \* req.session of the one browser: [userId]
  pc,         \* position of the GET /resume/pdf request: "idle", "query", "done"
  reqUser,    \* the user id bound into the pending SELECT
  document,   \* the handler's normalized lists (the render-ready document)
  trace,      \* calls made on res, doc and console by the current request, in order
  value,      \* argument handed to parseJsonField
  parsed,     \* what parseJsonField made of it
  saves,      \* the POST /api/resume requests, one record per request slot
  api,        \* the last answer of GET /api/resume and POST /api/register
  uploads     \* files multer has stored under the upload root

vars == <<users, resumes, session, pc, reqUser, document, trace, value, parsed,
          saves, api, uploads>>

----------------------------------------------------------------------------
(* Bounds *)

\* longest list-column text, in lexemes, handed to parseJsonField
MaxLen == 4
\* most columns of a stored resume row that differ from the empty row
MaxFilled == 2

----------------------------------------------------------------------------
(* Scalar text *)

NULL == "(null)"
UNDEFINED == "(undefined)"

\* JavaScript truthiness of a scalar text
Truthy(s) == s \notin {NULL, UNDEFINED, ""}

\* a || b
OrElse(a, b) == IF Truthy(a) THEN a ELSE b

----------------------------------------------------------------------------
(* JSON values and JSON text *)

NoMembers == <<>>

JNull == [k |-> "null", o |-> NoMembers, e |-> <<>>]
JTrue == [k |-> "true", o |-> NoMembers, e |-> <<>>]
JNum == [k |-> "number", o |-> NoMembers, e |-> <<>>]
JStr == [k |-> "string", o |-> NoMembers, e |-> <<>>]
JObj(members) == [k |-> "object", o |-> members, e |-> <<>>]
JArr(elems) == [k |-> "array", o |-> NoMembers, e |-> elems]

\* lexemes of JSON text; an object literal is one lexeme carrying its members
Lex(t) == [t |-> t, o |-> NoMembers]
LexObj(members) == [t |-> "obj", o |-> members]

NullText == [ty |-> "null", toks |-> <<>>]
UndefinedText == [ty |-> "undefined", toks |-> <<>>]
Text(toks) == [ty |-> "string", toks |-> toks]

RECURSIVE ParseValue(_, _), ParseElems(_, _, _, _)

ParseFail == [ok |-> FALSE, v |-> JNull, next |-> 0]

\* one JSON value starting at lexeme i
ParseValue(toks, i) ==
  IF i > Len(toks) THEN ParseFail
  ELSE LET t == toks[i].t IN
    CASE t = "null" -> [ok |-> TRUE, v |-> JNull, next |-> i + 1]
      [] t = "true" -> [ok |-> TRUE, v |-> JTrue, next |-> i + 1]
      [] t = "num" -> [ok |-> TRUE, v |-> JNum, next |-> i + 1]
      [] t = "str" -> [ok |-> TRUE, v |-> JStr, next |-> i + 1]
      [] t = "obj" -> [ok |-> TRUE, v |-> JObj(toks[i].o), next |-> i + 1]
      [] t = "[" -> ParseElems(toks, i + 1, <<>>, TRUE)
      [] OTHER -> ParseFail

\* the elements of an array whose "[" has been read, up to its "]"
ParseElems(toks, i, acc, first) ==
  IF i > Len(toks) THEN ParseFail
  ELSE IF first /\ toks[i].t = "]" THEN [ok |-> TRUE, v |-> JArr(acc), next |-> i + 1]
  ELSE LET r == ParseValue(toks, i) IN
    IF ~r.ok \/ r.next > Len(toks) THEN ParseFail
    ELSE IF toks[r.next].t = "]"
      THEN [ok |-> TRUE, v |-> JArr(Append(acc, r.v)), next |-> r.next + 1]
    ELSE IF toks[r.next].t = ","
      THEN ParseElems(toks, r.next + 1, Append(acc, r.v), FALSE)
    ELSE ParseFail

\* JSON.parse(text): the value, or a SyntaxError
JsonParse(toks) ==
  LET r == ParseValue(toks, 1) IN
    IF r.ok /\ r.next = Len(toks) + 1
      THEN [threw |-> FALSE, v |-> r.v]
      ELSE [threw |-> TRUE, v |-> JNull]

RECURSIVE StringifyValue(_), StringifyElems(_, _)

\* JSON.stringify(v), as lexemes
StringifyValue(v) ==
  CASE v.k = "null" -> <<Lex("null")>>
    [] v.k = "true" -> <<Lex("true")>>
    [] v.k = "number" -> <<Lex("num")>>
    [] v.k = "string" -> <<Lex("str")>>
    [] v.k = "object" -> <<LexObj(v.o)>>
    [] v.k = "array" -> <<Lex("[")>> \o StringifyElems(v.e, 1) \o <<Lex("]")>>

StringifyElems(elems, i) ==
  IF i > Len(elems) THEN <<>>
  ELSE StringifyValue(elems[i])
       \o (IF i < Len(elems) THEN <<Lex(",")>> ELSE <<>>)
       \o StringifyElems(elems, i + 1)

\* JSON.stringify(list) of a list, as a list-column text
JsonStringify(list) == Text(StringifyValue(JArr(list)))

\* the default of parseJsonField's second parameter: []
fallback == JArr(<<>>)

\* parseJsonField with the SyntaxError of JSON.parse escaping
parseJsonFieldNoCatch(v) ==
  IF v.ty # "string" \/ v.toks = <<>> THEN [threw |-> FALSE, val |-> fallback]
  ELSE LET p == JsonParse(v.toks) IN
    IF p.threw THEN [threw |-> TRUE, val |-> fallback]
    ELSE [threw |-> FALSE, val |-> IF p.v.k = "array" THEN p.v ELSE fallback]

\* parseJsonField(value): whether it threw, and the value it returned
parseJsonField(v) ==
  IF v.ty # "string" \/ v.toks = <<>> THEN [threw |-> FALSE, val |-> fallback]
  ELSE LET p == JsonParse(v.toks) IN
    IF p.threw THEN [threw |-> FALSE, val |-> fallback]
    ELSE [threw |-> FALSE, val |-> IF p.v.k = "array" THEN p.v ELSE fallback]

----------------------------------------------------------------------------
(* Tables *)

UserIds == {1, 2}

bcryptHash(p) == <<"bcrypt", p>>

\* rows of users the store holds from the start
RegisteredUsers ==
  { [id |-> 1, name |-> "Ann", email |-> "ann@x.test", password |-> bcryptHash("pw1")],
    [id |-> 2, name |-> "Bob", email |-> "bob@x.test", password |-> bcryptHash("pw2")] }

ScalarColumns ==
  { "full_name", "contact_info", "short_bio", "soft_skills", "technical_skills",
    "academic_institute", "academic_degree", "academic_year", "academic_grade",
    "company_name", "job_duration", "job_responsibilities" }

ListColumns == { "previous_projects", "social_links", "job_experiences", "academic_entries" }

Columns == ScalarColumns \cup {"photo_path"} \cup ListColumns

\* files under the upload root: the ones that exist, and those pdfkit can embed
ExistingFiles == { "/uploads/1-200.png", "/uploads/1-300.png" }
EmbeddableFiles == { "/uploads/1-300.png" }

\* a resume row with every text column NULL and every list column "[]", the
\* first row of the table
EmptyRow(u) ==
  [ id |-> 1, user_id |-> u,
    full_name |-> NULL, contact_info |-> NULL, photo_path |-> NULL, short_bio |-> NULL,
    soft_skills |-> NULL, technical_skills |-> NULL,
    academic_institute |-> NULL, academic_degree |-> NULL,
    academic_year |-> NULL, academic_grade |-> NULL,
    company_name |-> NULL, job_duration |-> NULL, job_responsibilities |-> NULL,
    previous_projects |-> JsonStringify(<<>>), social_links |-> JsonStringify(<<>>),
    job_experiences |-> JsonStringify(<<>>), academic_entries |-> JsonStringify(<<>>) ]

\* a text a form can put into a scalar column
SampleText(c) ==
  CASE c = "full_name" -> "Ann Lee"
    [] c = "contact_info" -> "ann@x.test"
    [] c = "short_bio" -> "Engineer"
    [] c = "soft_skills" -> "Teamwork"
    [] c = "technical_skills" -> "SQL"
    [] c = "academic_institute" -> "MIT"
    [] c = "academic_degree" -> "BSc"
    [] c = "academic_year" -> "2020"
    [] c = "academic_grade" -> "A"
    [] c = "company_name" -> "Acme"
    [] c = "job_duration" -> "2021-2023"
    [] c = "job_responsibilities" -> "Backend"

\* entries a form can put into a list column: a full one and a partial one
FullEntry(c) ==
  CASE c = "previous_projects" ->
         JObj([title |-> "App", description |-> "A tool", link |-> "http://x.test"])
    [] c = "social_links" ->
         JObj([label |-> "Site", platform |-> "Web", url |-> "http://s.test"])
    [] c = "job_experiences" ->
         JObj([company |-> "Initech", duration |-> "2019", responsibilities |-> "Ops"])
    [] c = "academic_entries" ->
         JObj([institute |-> "ETH", degree |-> "MSc", year |-> "2018", grade |-> "B"])

PartialEntry(c) ==
  CASE c = "previous_projects" -> JObj([title |-> "", link |-> "http://y.test"])
    [] c = "social_links" -> JObj([platform |-> "Git"])
    [] c = "job_experiences" -> JObj([duration |-> "2017"])
    [] c = "academic_entries" -> JObj([degree |-> "PhD"])

\* what a column can hold besides the value of the empty row
ColumnValues(c) ==
  IF c \in ScalarColumns THEN { "", SampleText(c) }
  ELSE IF c = "photo_path"
    THEN { "/uploads/1-100.png", "/uploads/1-200.png", "/uploads/1-300.png" }
  ELSE { NullText,
         JsonStringify(<<FullEntry(c)>>),
         JsonStringify(<<PartialEntry(c), FullEntry(c)>>),
         JsonStringify(<<JNull>>),
         JsonStringify(<<FullEntry(c), JNull>>),
         JsonStringify(<<JNum>>),
         JsonStringify(<<JStr>>) }

RECURSIVE RowsFilled(_, _)

\* the rows of user u in which at most n columns differ from the empty row
RowsFilled(u, n) ==
  IF n = 0 THEN { EmptyRow(u) }
  ELSE LET less == RowsFilled(u, n - 1) IN
    less \cup { [r EXCEPT ![c] = x] : r \in less, <<c, x>> \in
                  UNION { { <<d, y>> : y \in ColumnValues(d) } : d \in Columns } }

----------------------------------------------------------------------------
(* Calls on the response, the PDF document and the console *)

\* one call: the object, the method, the text (its concatenated parts), the font
\* size in effect for doc.text, and the options
Call(obj, call, arg, size, opt) ==
  [obj |-> obj, call |-> call, arg |-> arg, size |-> size, opt |-> opt]

ResSetHeader(name, val) == Call("res", "setHeader", <<name, val>>, 0, <<>>)
ResRedirect(url) == Call("res", "redirect", <<url>>, 0, <<>>)
ConsoleError(msg) == Call("console", "error", <<msg>>, 0, <<>>)
ConsoleWarn(msg) == Call("console", "warn", <<msg>>, 0, <<>>)
DocNew == Call("doc", "new", <<>>, 0, <<>>)
DocPipe == Call("doc", "pipe", <<"res">>, 0, <<>>)
DocEnd == Call("doc", "end", <<>>, 0, <<>>)
DocMoveDown(lines) == Call("doc", "moveDown", <<lines>>, 0, <<>>)
DocFillColor(color) == Call("doc", "fillColor", <<color>>, 0, <<>>)
DocImage(file) == Call("doc", "image", <<file>>, 0, <<"width", "120", "align", "left">>)
DocText(size, parts, opt) == Call("doc", "text", parts, size, opt)
DocHeading(title) == DocText(14, <<title>>, <<"underline">>)

\* String.prototype.link, what the member "link" of a string element is
NativeLink == "function link() { [native code] }"

\* el.key for a list element that is not null
Get(el, key) ==
  IF el.k = "object" /\ key \in DOMAIN el.o THEN el.o[key]
  ELSE IF el.k = "string" /\ key = "link" THEN NativeLink
  ELSE UNDEFINED

\* a block: the calls it made, and whether it ended by throwing
Done(ev) == [ev |-> ev, threw |-> FALSE]
Thrown(ev) == [ev |-> ev, threw |-> TRUE]

RECURSIVE Chain(_, _)

\* the blocks run one after the other until one throws
Chain(blocks, i) ==
  IF i > Len(blocks) THEN Done(<<>>)
  ELSE IF blocks[i].threw THEN Thrown(blocks[i].ev)
  ELSE LET rest == Chain(blocks, i + 1) IN
    [ev |-> blocks[i].ev \o rest.ev, threw |-> rest.threw]

\* the body of projectList.forEach for one element
ProjectEntry(project) ==
  IF project.k = "null" THEN Thrown(<<>>)
  ELSE LET title == OrElse(Get(project, "title"), "Untitled Project")
           description == Get(project, "description")
           link == Get(project, "link")
       IN Done(<<DocText(12, <<title>>, <<>>)>>
               \o (IF Truthy(description) THEN <<DocText(12, <<description>>, <<>>)>> ELSE <<>>)
               \o (IF Truthy(link)
                     THEN <<DocFillColor("blue"),
                            DocText(12, <<link>>, <<"link", link, "underline">>),
                            DocFillColor("black")>>
                     ELSE <<>>)
               \o <<DocMoveDown("0.3")>>)

\* the body of socialList.forEach for one element
SocialEntry(link) ==
  IF link.k = "null" THEN Thrown(<<>>)
  ELSE LET label == OrElse(Get(link, "label"), OrElse(Get(link, "platform"), "Profile"))
           url == Get(link, "url")
       IN Done(IF Truthy(url)
                 THEN <<DocText(12, <<label, ": ", url>>, <<"link", url, "underline">>)>>
                 ELSE <<DocText(12, <<label>>, <<>>)>>)

\* the academic entry with its Year/Grade line written unconditionally
AcademicEntryAlwaysYear(entry) ==
  IF entry.k = "null" THEN Thrown(<<>>)
  ELSE LET degree == OrElse(Get(entry, "degree"), "Degree N/A")
           institute == OrElse(Get(entry, "institute"), "Institute N/A")
           year == Get(entry, "year")
           grade == Get(entry, "grade")
       IN Done(<<DocText(12, <<degree, " at ", institute>>, <<>>),
                 DocText(12, <<"Year: ", OrElse(year, "N/A"),
                               " | Grade: ", OrElse(grade, "N/A")>>, <<>>),
                 DocMoveDown("0.3")>>)

\* the body of academicList.forEach for one element
AcademicEntry(entry) ==
  IF entry.k = "null" THEN Thrown(<<>>)
  ELSE LET degree == OrElse(Get(entry, "degree"), "Degree N/A")
           institute == OrElse(Get(entry, "institute"), "Institute N/A")
           year == Get(entry, "year")
           grade == Get(entry, "grade")
       IN Done(<<DocText(12, <<degree, " at ", institute>>, <<>>)>>
               \o (IF Truthy(year) \/ Truthy(grade)
                     THEN <<DocText(12, <<"Year: ", OrElse(year, "N/A"),
                                          " | Grade: ", OrElse(grade, "N/A")>>, <<>>)>>
                     ELSE <<>>)
               \o <<DocMoveDown("0.3")>>)

\* the body of experiencesToRender.forEach for one element
ExperienceEntry(exp) ==
  IF exp.k = "null" THEN Thrown(<<>>)
  ELSE Done(<<DocText(12, <<OrElse(Get(exp, "company"), "Company N/A")>>, <<>>),
              DocText(12, <<"Duration: ", OrElse(Get(exp, "duration"), "N/A")>>, <<>>),
              DocText(12, <<OrElse(Get(exp, "responsibilities"),
                                   "Responsibilities not provided")>>, <<>>),
              DocMoveDown("0.5")>>)

EntryBlock(section, el) ==
  CASE section = "projects" -> ProjectEntry(el)
    [] section = "socials" -> SocialEntry(el)
    [] section = "academics" -> AcademicEntry(el)
    [] section = "experiences" -> ExperienceEntry(el)

\* list.forEach(...) of a section
ForEach(section, list) ==
  Chain([i \in 1..Len(list) |-> EntryBlock(section, list[i])], 1)

----------------------------------------------------------------------------
(* GET /resume/pdf: normalization *)

\* the legacy test looking at institute and degree alone
hasLegacyInstituteOrDegree(resume) ==
  \/ Truthy(resume.academic_institute)
  \/ Truthy(resume.academic_degree)

hasLegacyAcademic(resume) ==
  \/ Truthy(resume.academic_institute)
  \/ Truthy(resume.academic_degree)
  \/ Truthy(resume.academic_year)
  \/ Truthy(resume.academic_grade)

\* academicList: the decoded list, or one entry made of the legacy columns
academicList(resume, academicListRaw) ==
  IF Len(academicListRaw) > 0 THEN academicListRaw
  ELSE IF hasLegacyAcademic(resume)
    THEN << JObj([institute |-> resume.academic_institute,
                  degree |-> resume.academic_degree,
                  year |-> resume.academic_year,
                  grade |-> resume.academic_grade]) >>
  ELSE <<>>

\* experiencesToRender: the decoded list, or the legacy entry if it says anything
experiencesToRender(resume, experienceList) ==
  IF Len(experienceList) > 0 THEN experienceList
  ELSE LET exp == JObj([company |-> resume.company_name,
                        duration |-> resume.job_duration,
                        responsibilities |-> resume.job_responsibilities])
       IN IF \/ Truthy(Get(exp, "company"))
             \/ Truthy(Get(exp, "duration"))
             \/ Truthy(Get(exp, "responsibilities"))
            THEN <<exp>> ELSE <<>>

NoDocument ==
  [ built |-> FALSE, projectList |-> <<>>, socialList |-> <<>>, experienceList |-> <<>>,
    academicList |-> <<>>, experiencesToRender |-> <<>> ]

\* the lists the handler renders from
Normalize(resume) ==
  LET experienceList == parseJsonField(resume.job_experiences).val.e
      academicListRaw == parseJsonField(resume.academic_entries).val.e
  IN [ built |-> TRUE,
       projectList |-> parseJsonField(resume.previous_projects).val.e,
       socialList |-> parseJsonField(resume.social_links).val.e,
       experienceList |-> experienceList,
       academicList |-> academicList(resume, academicListRaw),
       experiencesToRender |-> experiencesToRender(resume, experienceList) ]

\* whether one of the four parseJsonField calls throws
NormalizeThrows(resume) ==
  \E c \in ListColumns : parseJsonField(resume[c]).threw

----------------------------------------------------------------------------
(* GET /resume/pdf: the blocks *)

\* new PDFDocument(), the two headers, doc.pipe(res)
OpenStream ==
  << DocNew,
     ResSetHeader("Content-Type", "application/pdf"),
     ResSetHeader("Content-Disposition", "attachment; filename=resume-<now>.pdf"),
     DocPipe >>

TitleBlock(resume) ==
  Done(<< DocText(20, <<OrElse(resume.full_name, "Unnamed Candidate")>>, <<"underline">>),
          DocMoveDown("0.5"),
          DocText(12, <<OrElse(resume.contact_info, "Contact info not provided")>>, <<>>),
          DocMoveDown("1") >>)

\* the photo block with the failure of doc.image escaping
PhotoBlockNoCatch(resume) ==
  IF Truthy(resume.photo_path) /\ resume.photo_path \in ExistingFiles
    THEN IF resume.photo_path \in EmbeddableFiles
           THEN Done(<<DocImage(resume.photo_path), DocMoveDown("1")>>)
           ELSE Thrown(<<>>)
    ELSE Done(<<>>)

PhotoBlock(resume) ==
  IF Truthy(resume.photo_path) /\ resume.photo_path \in ExistingFiles
    THEN IF resume.photo_path \in EmbeddableFiles
           THEN Done(<<DocImage(resume.photo_path), DocMoveDown("1")>>)
           ELSE Done(<<ConsoleWarn("Unable to embed photo:")>>)
    ELSE Done(<<>>)

\* a heading, one text under it, a gap
PlainSection(title, text) ==
  Done(<< DocHeading(title), DocText(12, <<OrElse(text, "Not provided")>>, <<>>),
          DocMoveDown("1") >>)

\* a heading and the entries of a list, emitted if the list is not empty
ListSection(title, section, list) ==
  IF Len(list) > 0
    THEN Chain(<< Done(<<DocHeading(title)>>), ForEach(section, list),
                  Done(<<DocMoveDown("1")>>) >>, 1)
    ELSE Done(<<>>)

ExperienceSection(list) ==
  IF Len(list) > 0
    THEN Chain(<< Done(<<DocHeading("Work Experience")>>), ForEach("experiences", list) >>, 1)
    ELSE Done(<< DocHeading("Work Experience"),
                 DocText(12, <<"No experience provided">>, <<>>) >>)

\* the blocks with the academic section written before the social links
BlocksAcademicFirst(resume, d) ==
  << TitleBlock(resume),
     PhotoBlock(resume),
     PlainSection("About Me", resume.short_bio),
     PlainSection("Soft Skills", resume.soft_skills),
     PlainSection("Technical Skills", resume.technical_skills),
     ListSection("Previous Work / Projects", "projects", d.projectList),
     ListSection("Academic Background", "academics", d.academicList),
     ListSection("Social Links", "socials", d.socialList),
     ExperienceSection(d.experiencesToRender) >>

\* the blocks of the document, in the order the handler writes them
Blocks(resume, d) ==
  << TitleBlock(resume),
     PhotoBlock(resume),
     PlainSection("About Me", resume.short_bio),
     PlainSection("Soft Skills", resume.soft_skills),
     PlainSection("Technical Skills", resume.technical_skills),
     ListSection("Previous Work / Projects", "projects", d.projectList),
     ListSection("Social Links", "socials", d.socialList),
     ListSection("Academic Background", "academics", d.academicList),
     ExperienceSection(d.experiencesToRender) >>

\* the catch clause of the handler
CatchClause == << ConsoleError("PDF generation error:"), ResRedirect("/resume") >>

\* the handler from the normalization on, for a row that exists: [document, trace]
RenderResume(resume) ==
  IF NormalizeThrows(resume) THEN [document |-> NoDocument, trace |-> CatchClause]
  ELSE LET d == Normalize(resume)
           body == Chain(Blocks(resume, d), 1)
       IN [ document |-> d,
            trace |-> OpenStream \o body.ev
                      \o (IF body.threw THEN CatchClause ELSE <<DocEnd>>) ]

----------------------------------------------------------------------------
(* Requests to /api *)

\* most POST /api/resume requests in flight at once
MaxSaves == 2

SaveSlots == 1..MaxSaves

\* req.body of a form that sends nothing
EmptyBody ==
  [ full_name |-> UNDEFINED, contact_info |-> UNDEFINED, short_bio |-> UNDEFINED,
    soft_skills |-> UNDEFINED, technical_skills |-> UNDEFINED,
    academic_institute |-> UNDEFINED, academic_degree |-> UNDEFINED,
    academic_year |-> UNDEFINED, academic_grade |-> UNDEFINED,
    company_name |-> UNDEFINED, job_duration |-> UNDEFINED,
    job_responsibilities |-> UNDEFINED,
    previous_projects |-> UndefinedText, social_links |-> UndefinedText,
    job_experiences |-> UndefinedText, academic_entries |-> UndefinedText ]

\* a slot no request occupies
FreeSlot ==
  [ pc |-> "free", userId |-> 0, body |-> EmptyBody, photoPath |-> NULL,
    existing |-> {}, op |-> "", status |-> 0, json |-> {} ]

NoSaves == [s \in SaveSlots |-> FreeSlot]

NoAnswer == [route |-> "", userId |-> 0, status |-> 0, json |-> {}]

----------------------------------------------------------------------------
(* Sessions *)

NoSession == [userId |-> 0, name |-> "", email |-> ""]

LoginEmails == { "", "ann@x.test", "bob@x.test", "eve@x.test" }
LoginPasswords == { "", "pw1", "pw2" }

\* POST /api/login
Login(email, password) ==
  /\ LET found == { u \in users : u.email = email } IN
       IF email = "" \/ password = "" \/ found = {} THEN session' = session
       ELSE LET user == CHOOSE u \in found : TRUE IN
         IF bcryptHash(password) # user.password THEN session' = session
         ELSE session' = [userId |-> user.id, name |-> user.name, email |-> user.email]
  /\ UNCHANGED <<users, resumes, pc, reqUser, document, trace, value, parsed, saves, api, uploads>>

\* POST /api/logout
Logout ==
  /\ session' = NoSession
  /\ UNCHANGED <<users, resumes, pc, reqUser, document, trace, value, parsed, saves, api, uploads>>

----------------------------------------------------------------------------
(* GET /resume/pdf: the request *)

\* ensurePageAuth, then the handler up to its await of the SELECT
PdfRequest ==
  /\ pc \in {"idle", "done"}
  /\ document' = NoDocument
  /\ IF session.userId = 0
       THEN /\ trace' = <<ResRedirect("/login")>>
            /\ pc' = "done"
            /\ reqUser' = 0
       ELSE /\ trace' = <<>>
            /\ pc' = "query"
            /\ reqUser' = session.userId
  /\ UNCHANGED <<users, resumes, session, value, parsed, saves, api, uploads>>

\* the SELECT without its WHERE clause
SelectAnyResume(table, userId) == table

\* SELECT * FROM resumes WHERE user_id = ?
SelectResume(table, userId) == { r \in table : r.user_id = userId }

\* the handler after the SELECT has settled, to its end
PdfRespond(dbOk) ==
  /\ pc = "query"
  /\ pc' = "done"
  /\ LET rows == SelectResume(resumes, reqUser) IN
       IF ~dbOk THEN /\ trace' = CatchClause
                     /\ document' = NoDocument
       ELSE IF rows = {} THEN /\ trace' = <<ResRedirect("/resume")>>
                              /\ document' = NoDocument
       ELSE LET out == RenderResume(CHOOSE r \in rows : TRUE) IN
              /\ trace' = out.trace
              /\ document' = out.document
  /\ UNCHANGED <<users, resumes, session, reqUser, value, parsed, saves, api, uploads>>

----------------------------------------------------------------------------
(* The /api gate, registration and GET /api/resume *)

\* the gate letting every request through
ensureApiAuthOpen(sess) == TRUE

\* ensureApiAuth: whether the request goes on to its handler
ensureApiAuth(sess) == sess.userId # 0

\* formatResume(resume): the row with its four list columns decoded
formatResume(resume) ==
  [ resume EXCEPT !.previous_projects = parseJsonField(@).val,
                  !.social_links = parseJsonField(@).val,
                  !.job_experiences = parseJsonField(@).val,
                  !.academic_entries = parseJsonField(@).val ]

Answer(route, userId, status, json) ==
  [route |-> route, userId |-> userId, status |-> status, json |-> json]

\* INTEGER PRIMARY KEY AUTOINCREMENT
NextId(table) ==
  IF table = {} THEN 1
  ELSE 1 + (CHOOSE n \in { r.id : r \in table } : \A r \in table : r.id <= n)

\* POST /api/register; the UNIQUE email makes the outcome that of its one INSERT
Register(name, email, password) ==
  /\ IF name = "" \/ email = "" \/ password = ""
       THEN /\ api' = Answer("POST /api/register", 0, 400, {})
            /\ users' = users
     ELSE IF \E u \in users : u.email = email
       THEN /\ api' = Answer("POST /api/register", 0, 409, {})
            /\ users' = users
     ELSE /\ api' = Answer("POST /api/register", 0, 201, {})
          /\ users' = users \cup { [id |-> NextId(users), name |-> name, email |-> email,
                                    password |-> bcryptHash(password)] }
  /\ UNCHANGED <<resumes, session, pc, reqUser, document, trace, value, parsed,
                 saves, uploads>>

\* GET /api/resume; its one SELECT is bound to the session's user on arrival
ApiResumeGet(dbOk) ==
  /\ IF ~ensureApiAuth(session)
       THEN api' = Answer("GET /api/resume", 0, 401, {})
     ELSE IF ~dbOk
       THEN api' = Answer("GET /api/resume", session.userId, 500, {})
     ELSE api' = Answer("GET /api/resume", session.userId, 200,
                        { formatResume(r) : r \in SelectResume(resumes, session.userId) })
  /\ UNCHANGED <<users, resumes, session, pc, reqUser, document, trace, value, parsed,
                 saves, uploads>>

----------------------------------------------------------------------------
(* POST /api/resume *)

\* the photo part of the form: none, a PNG, a GIF, a PNG over 2 MiB
FileParts == { "none", "png", "gif", "big" }

\* fileFilter and limits.fileSize of multer
FileAccepted(file) == file \in { "none", "png" }

\* '/uploads/' + userId + '-' + Date.now() + ext, for one instant
UploadName(userId) ==
  CASE userId = 1 -> "/uploads/1-400.png"
    [] userId = 2 -> "/uploads/2-400.png"
    [] OTHER -> "/uploads/3-400.png"

\* a parameter as sqlite3 binds it: undefined is stored as NULL
Bind(x) == IF x = UNDEFINED THEN NULL ELSE x

\* the destructuring default: company_name = ''
Default(x, d) == IF x = UNDEFINED THEN d ELSE x

\* experienceList[0] || {}
primaryExperience(experienceList) ==
  IF Len(experienceList) > 0 /\ experienceList[1].k # "null"
    THEN experienceList[1]
    ELSE JObj(NoMembers)

\* the legacy column always taken from the primary entry
mirrorPrimary(given, member) == OrElse(member, "")

\* fallbackCompany, fallbackDuration, fallbackResponsibilities
fallbackLegacy(given, member) == OrElse(Default(given, ""), OrElse(member, ""))

\* the column values the UPDATE or INSERT of a request binds
SaveParams(slot) ==
  LET b == slot.body
      experienceList == parseJsonField(b.job_experiences).val.e
      primary == primaryExperience(experienceList)
      existingPhoto == IF slot.existing = {} THEN NULL
                       ELSE (CHOOSE r \in slot.existing : TRUE).photo_path
  IN [ user_id |-> slot.userId,
       full_name |-> Bind(b.full_name),
       contact_info |-> Bind(b.contact_info),
       photo_path |-> OrElse(slot.photoPath, existingPhoto),
       short_bio |-> Bind(b.short_bio),
       soft_skills |-> Bind(b.soft_skills),
       technical_skills |-> Bind(b.technical_skills),
       academic_institute |-> Bind(b.academic_institute),
       academic_degree |-> Bind(b.academic_degree),
       academic_year |-> Bind(b.academic_year),
       academic_grade |-> Bind(b.academic_grade),
       company_name |-> fallbackLegacy(b.company_name, Get(primary, "company")),
       job_duration |-> fallbackLegacy(b.job_duration, Get(primary, "duration")),
       job_responsibilities |->
         fallbackLegacy(b.job_responsibilities, Get(primary, "responsibilities")),
       previous_projects |-> JsonStringify(parseJsonField(b.previous_projects).val.e),
       social_links |-> JsonStringify(parseJsonField(b.social_links).val.e),
       job_experiences |-> JsonStringify(experienceList),
       academic_entries |-> JsonStringify(parseJsonField(b.academic_entries).val.e) ]

\* a row: the bound values under a row id
Row(id, params) == [c \in DOMAIN params \cup {"id"} |-> IF c = "id" THEN id ELSE params[c]]

\* UPDATE resumes SET ... WHERE user_id = ?
UpdateResume(table, params) ==
  { IF r.user_id = params.user_id THEN Row(r.id, params) ELSE r : r \in table }

\* the INSERT on a table whose user_id is not UNIQUE
InsertResumeNoUnique(table, params) ==
  [ok |-> TRUE, table |-> table \cup { Row(NextId(table), params) }]

\* INSERT INTO resumes: refused if a row of the user exists (user_id UNIQUE)
InsertResume(table, params) ==
  IF \E r \in table : r.user_id = params.user_id
    THEN [ok |-> FALSE, table |-> table]
    ELSE [ok |-> TRUE, table |-> table \cup { Row(NextId(table), params) }]

\* the request answered with a status and nothing else
Answered(slot, status) ==
  [FreeSlot EXCEPT !.pc = "done", !.status = status, !.userId = slot.userId, !.op = slot.op]

\* ensureApiAuth, upload.single('photo'), then the handler up to its first SELECT
SaveArrive(s, body, file) ==
  /\ saves[s].pc \in { "free", "done" }
  /\ IF ~ensureApiAuth(session)
       THEN /\ saves' = [saves EXCEPT ![s] = Answered(FreeSlot, 401)]
            /\ uploads' = uploads
     ELSE IF ~FileAccepted(file)
       THEN /\ saves' = [saves EXCEPT ![s] =
                           Answered([FreeSlot EXCEPT !.userId = session.userId], 400)]
            /\ uploads' = uploads
     ELSE LET photoPath == IF file = "png" THEN UploadName(session.userId) ELSE NULL IN
            /\ saves' = [saves EXCEPT ![s] =
                           [FreeSlot EXCEPT !.pc = "select", !.userId = session.userId,
                                            !.body = body, !.photoPath = photoPath]]
            /\ uploads' = IF file = "png" THEN uploads \cup {photoPath} ELSE uploads
  /\ UNCHANGED <<users, resumes, session, pc, reqUser, document, trace, value, parsed, api>>

\* the first SELECT settles: existing
SaveSelect(s, dbOk) ==
  /\ saves[s].pc = "select"
  /\ IF ~dbOk THEN saves' = [saves EXCEPT ![s] = Answered(@, 500)]
     ELSE LET existing == SelectResume(resumes, saves[s].userId) IN
       saves' = [saves EXCEPT ![s] =
                   [@ EXCEPT !.pc = "write", !.existing = existing,
                             !.op = IF existing # {} THEN "update" ELSE "insert"]]
  /\ UNCHANGED <<users, resumes, session, pc, reqUser, document, trace, value, parsed,
                 api, uploads>>

\* the UPDATE or INSERT runs
SaveWrite(s, dbOk) ==
  /\ saves[s].pc = "write"
  /\ LET params == SaveParams(saves[s])
         inserted == InsertResume(resumes, params)
     IN IF ~dbOk \/ (saves[s].op = "insert" /\ ~inserted.ok)
          THEN /\ saves' = [saves EXCEPT ![s] = Answered(@, 500)]
               /\ resumes' = resumes
          ELSE /\ saves' = [saves EXCEPT ![s].pc = "reselect"]
               /\ resumes' = IF saves[s].op = "update" THEN UpdateResume(resumes, params)
                             ELSE inserted.table
  /\ UNCHANGED <<users, session, pc, reqUser, document, trace, value, parsed, api, uploads>>

\* the last SELECT settles and the row is sent back
SaveReselect(s, dbOk) ==
  /\ saves[s].pc = "reselect"
  /\ IF ~dbOk THEN saves' = [saves EXCEPT ![s] = Answered(@, 500)]
     ELSE saves' = [saves EXCEPT ![s] =
                      [@ EXCEPT !.pc = "done", !.status = 200,
                                !.json = { formatResume(r) :
                                             r \in SelectResume(resumes, saves[s].userId) }]]
  /\ UNCHANGED <<users, resumes, session, pc, reqUser, document, trace, value, parsed,
                 api, uploads>>

----------------------------------------------------------------------------
(* parseJsonField on its own *)

NotParsed == [called |-> FALSE, threw |-> FALSE, val |-> fallback]

\* one call of parseJsonField on the value at hand
ParseCall ==
  /\ ~parsed.called
  /\ LET r == parseJsonField(value) IN
       parsed' = [called |-> TRUE, threw |-> r.threw, val |-> r.val]
  /\ UNCHANGED <<users, resumes, session, pc, reqUser, document, trace, value, saves, api, uploads>>

----------------------------------------------------------------------------
(* The export service *)

Init ==
  /\ users = RegisteredUsers
  /\ resumes \in { {} } \cup { {r} : r \in RowsFilled(1, MaxFilled) }
  /\ session = NoSession
  /\ pc = "idle"
  /\ reqUser = 0
  /\ document = NoDocument
  /\ trace = <<>>
  /\ value = NullText
  /\ parsed = NotParsed
  /\ saves = NoSaves
  /\ api = NoAnswer
  /\ uploads = ExistingFiles

Next ==
  \/ \E email \in LoginEmails, password \in LoginPasswords : Login(email, password)
  \/ Logout
  \/ PdfRequest
  \/ \E dbOk \in BOOLEAN : PdfRespond(dbOk)

Spec == Init /\ [][Next]_vars

----------------------------------------------------------------------------
(* The normalizer fed every short text *)

SampleMembers == [title |-> "App"]

Lexemes ==
  { Lex("["), Lex("]"), Lex(","), Lex("null"), Lex("true"), Lex("num"), Lex("str"),
    Lex("word"), LexObj(SampleMembers) }

\* every text of at most MaxLen lexemes, and the two absent values
ParseInputs ==
  { NullText, UndefinedText }
    \cup { Text(s) : s \in UNION { [1..n -> Lexemes] : n \in 0..MaxLen } }

InitParse ==
  /\ users = RegisteredUsers
  /\ resumes = {}
  /\ session = NoSession
  /\ pc = "idle"
  /\ reqUser = 0
  /\ document = NoDocument
  /\ trace = <<>>
  /\ value \in ParseInputs
  /\ parsed = NotParsed
  /\ saves = NoSaves
  /\ api = NoAnswer
  /\ uploads = ExistingFiles

NextParse == ParseCall

SpecParse == InitParse /\ [][NextParse]_vars

----------------------------------------------------------------------------
(* Saves in flight *)

\* two forms a browser sends
SaveBodies ==
  { [EmptyBody EXCEPT !.full_name = "Ann Lee"],
    [EmptyBody EXCEPT !.job_experiences = JsonStringify(<<FullEntry("job_experiences")>>)] }

\* the row the second user saved earlier
OtherRow == [EmptyRow(2) EXCEPT !.full_name = "Bob Ray"]

InitSave ==
  /\ users = RegisteredUsers
  /\ resumes = { OtherRow }
  /\ session = NoSession
  /\ pc = "idle"
  /\ reqUser = 0
  /\ document = NoDocument
  /\ trace = <<>>
  /\ value = NullText
  /\ parsed = NotParsed
  /\ saves = NoSaves
  /\ api = NoAnswer
  /\ uploads = {}

\* the first user logs in and saves from several tabs at once
NextSave ==
  \/ \E password \in LoginPasswords : Login("ann@x.test", password)
  \/ Logout
  \/ \E s \in SaveSlots, body \in SaveBodies : SaveArrive(s, body, "none")
  \/ \E s \in SaveSlots, dbOk \in BOOLEAN : SaveSelect(s, dbOk)
  \/ \E s \in SaveSlots, dbOk \in BOOLEAN : SaveWrite(s, dbOk)
  \/ \E s \in SaveSlots, dbOk \in BOOLEAN : SaveReselect(s, dbOk)

SpecSave == InitSave /\ [][NextSave]_vars

----------------------------------------------------------------------------
(* The whole service, one save at a time *)

RegisterEmails == { "", "ann@x.test", "eve@x.test" }

\* the first user and the newcomer log in
AuthEmails == { "", "ann@x.test", "eve@x.test" }

\* the form they send
AuthBody == [EmptyBody EXCEPT !.full_name = "Ann Lee"]

InitAuth ==
  /\ users = RegisteredUsers
  /\ resumes = {}
  /\ session = NoSession
  /\ pc = "idle"
  /\ reqUser = 0
  /\ document = NoDocument
  /\ trace = <<>>
  /\ value = NullText
  /\ parsed = NotParsed
  /\ saves = NoSaves
  /\ api = NoAnswer
  /\ uploads = {}

NextAuth ==
  \/ \E email \in RegisterEmails : Register("Eve", email, "pw1")
  \/ \E email \in AuthEmails, password \in LoginPasswords : Login(email, password)
  \/ Logout
  \/ \E dbOk \in BOOLEAN : ApiResumeGet(dbOk)
  \/ \E file \in { "none", "gif" } : SaveArrive(1, AuthBody, file)
  \/ \E dbOk \in BOOLEAN : SaveSelect(1, dbOk)
  \/ \E dbOk \in BOOLEAN : SaveWrite(1, dbOk)
  \/ \E dbOk \in BOOLEAN : SaveReselect(1, dbOk)
  \/ PdfRequest
  \/ \E dbOk \in BOOLEAN : PdfRespond(dbOk)

SpecAuth == InitAuth /\ [][NextAuth]_vars

----------------------------------------------------------------------------
(* One user saving every form *)

\* what a form can send as job_experiences
ExperienceTexts ==
  { UndefinedText,
    Text(<<Lex("[")>>),
    JsonStringify(<<>>),
    JsonStringify(<<FullEntry("job_experiences")>>),
    JsonStringify(<<PartialEntry("job_experiences"), FullEntry("job_experiences")>>),
    JsonStringify(<<JNull, FullEntry("job_experiences")>>),
    JsonStringify(<<JNum>>) }

\* forms differing in the three legacy columns and in job_experiences
MirrorBodies ==
  { [EmptyBody EXCEPT !.company_name = c, !.job_duration = d,
                      !.job_responsibilities = r, !.job_experiences = e] :
      c \in { UNDEFINED, "", SampleText("company_name") },
      d \in { UNDEFINED, SampleText("job_duration") },
      r \in { UNDEFINED, SampleText("job_responsibilities") },
      e \in ExperienceTexts }

InitMirror ==
  /\ users = RegisteredUsers
  /\ resumes = {}
  /\ session = NoSession
  /\ pc = "idle"
  /\ reqUser = 0
  /\ document = NoDocument
  /\ trace = <<>>
  /\ value = NullText
  /\ parsed = NotParsed
  /\ saves = NoSaves
  /\ api = NoAnswer
  /\ uploads = {}

NextMirror ==
  \/ Login("ann@x.test", "pw1")
  \/ \E body \in MirrorBodies, file \in { "none", "png" } : SaveArrive(1, body, file)
  \/ \E dbOk \in BOOLEAN : SaveSelect(1, dbOk)
  \/ \E dbOk \in BOOLEAN : SaveWrite(1, dbOk)
  \/ \E dbOk \in BOOLEAN : SaveReselect(1, dbOk)

SpecMirror == InitMirror /\ [][NextMirror]_vars

----------------------------------------------------------------------------
(* Reading a trace *)

\* positions of the trace at which call c stands
Positions(tr, c) == { i \in 1..Len(tr) : tr[i] = c }

IsHeading(c) == c.obj = "doc" /\ c.call = "text" /\ c.size = 14

\* the headings written, in order
Headings(tr) ==
  LET hs == SelectSeq(tr, IsHeading) IN [i \in 1..Len(hs) |-> hs[i].arg[1]]

HeadingCount(tr, title) == Cardinality({ i \in 1..Len(tr) : tr[i] = DocHeading(title) })

\* the block a call opens, "" if it opens none
BlockLabel(c) ==
  IF c.obj # "doc" THEN ""
  ELSE IF c.call = "image" THEN "Photo"
  ELSE IF c.call = "text" /\ c.size = 20 THEN "Title"
  ELSE IF c.call = "text" /\ c.size = 14 THEN c.arg[1]
  ELSE ""

OpensBlock(c) == BlockLabel(c) # ""

\* the blocks opened, in order
BlockLabels(tr) ==
  LET bs == SelectSeq(tr, OpensBlock) IN [i \in 1..Len(bs) |-> BlockLabel(bs[i])]

BlockOrder ==
  << "Title", "Photo", "About Me", "Soft Skills", "Technical Skills",
     "Previous Work / Projects", "Social Links", "Academic Background", "Work Experience" >>

Rank(label) ==
  IF \E n \in 1..Len(BlockOrder) : BlockOrder[n] = label
    THEN CHOOSE n \in 1..Len(BlockOrder) : BlockOrder[n] = label
    ELSE 0

\* what the document receives: text and images
IsWrite(c) == c.obj = "doc" /\ c.call \in {"text", "image"}

IsText(c) == c.obj = "doc" /\ c.call = "text"

\* the texts written under a heading, up to the next heading
SectionTexts(tr, title) ==
  LET at == Positions(tr, DocHeading(title)) IN
    IF at = {} THEN <<>>
    ELSE LET h == CHOOSE i \in at : TRUE
             later == { j \in (h + 1)..Len(tr) : IsHeading(tr[j]) }
             stop == IF later = {} THEN Len(tr) + 1
                     ELSE CHOOSE j \in later : \A k \in later : j <= k
             body == SubSeq(tr, h + 1, stop - 1)
             texts == SelectSeq(body, IsText)
         IN [i \in 1..Len(texts) |-> texts[i].arg]

\* the trace from the "About Me" heading on
FromAbout(tr) ==
  LET at == Positions(tr, DocHeading("About Me")) IN
    IF at = {} THEN <<>>
    ELSE SubSeq(tr, CHOOSE i \in at : \A k \in at : i <= k, Len(tr))

Streaming(tr) == Positions(tr, DocPipe) # {}

\* the request has been answered by the handler proper, for a row it found
Rendered == pc = "done" /\ document.built

\* the row the answered request was about
TheRow == CHOOSE r \in resumes : r.user_id = reqUser

Complete(tr) == Len(tr) > 0 /\ tr[Len(tr)] = DocEnd

----------------------------------------------------------------------------
(* Block order and headers *)

\* C1: the blocks a request writes appear in the fixed order Title, Photo,
\* About Me, Soft Skills, Technical Skills, Previous Work / Projects, Social
\* Links, Academic Background, Work Experience, whichever of them are left out,
\* and both response headers are set before the first text or image is written.
BlocksInFixedOrder ==
  LET labels == BlockLabels(trace) IN
    /\ \A i \in 1..Len(labels) : Rank(labels[i]) > 0
    /\ \A i, j \in 1..Len(labels) : i < j => Rank(labels[i]) < Rank(labels[j])
    /\ \A i \in 1..Len(trace) : IsWrite(trace[i]) =>
         /\ \E j \in 1..(i - 1) : /\ trace[j].obj = "res" /\ trace[j].call = "setHeader"
                                  /\ trace[j].arg[1] = "Content-Type"
         /\ \E j \in 1..(i - 1) : /\ trace[j].obj = "res" /\ trace[j].call = "setHeader"
                                  /\ trace[j].arg[1] = "Content-Disposition"

\* a finished document with the projects and academic blocks and no social block
BlocksInFixedOrderWitness ==
  /\ Rendered /\ Complete(trace)
  /\ BlockLabels(trace) =
       << "Title", "About Me", "Soft Skills", "Technical Skills",
          "Previous Work / Projects", "Academic Background", "Work Experience" >>

----------------------------------------------------------------------------
(* Which headings appear *)

AlwaysHeadings == { "About Me", "Soft Skills", "Technical Skills", "Work Experience" }

\* C2: every rendered record has the headings About Me, Soft Skills, Technical
\* Skills and Work Experience; it has the Projects, Social Links and Academic
\* headings exactly when the normalized list is not empty; a record with empty
\* lists and empty legacy columns has just the four, with "No experience
\* provided" under Work Experience.
HeadingsFollowLists ==
  Rendered =>
    /\ \A h \in AlwaysHeadings : HeadingCount(trace, h) = 1
    /\ HeadingCount(trace, "Previous Work / Projects") = 1 <=> Len(document.projectList) > 0
    /\ HeadingCount(trace, "Social Links") = 1 <=> Len(document.socialList) > 0
    /\ HeadingCount(trace, "Academic Background") = 1 <=> Len(document.academicList) > 0
    /\ ( /\ document.projectList = <<>> /\ document.socialList = <<>>
         /\ document.academicList = <<>> /\ document.experiencesToRender = <<>> )
       => /\ Headings(trace) = << "About Me", "Soft Skills", "Technical Skills",
                                  "Work Experience" >>
          /\ SectionTexts(trace, "Work Experience") = << <<"No experience provided">> >>

----------------------------------------------------------------------------
(* No record *)

\* C3: a request of a logged-in user who has no resume row ends with a redirect
\* to /resume, and constructs no document, sets no header and writes nothing.
NoRowRedirects ==
  (pc = "done" /\ reqUser # 0 /\ ~\E r \in resumes : r.user_id = reqUser) =>
    /\ Len(trace) > 0 /\ trace[Len(trace)] = ResRedirect("/resume")
    /\ \A i \in 1..Len(trace) : /\ trace[i].obj # "doc"
                                /\ trace[i].call # "setHeader"

\* the second user, who has no row, has asked while the first user's row exists
NoRowRedirectsWitness ==
  /\ pc = "done" /\ reqUser = 2 /\ resumes # {}
  /\ trace = <<ResRedirect("/resume")>>

----------------------------------------------------------------------------
(* Errors once streaming has begun *)

\* C4: after doc.pipe(res) no redirect is issued: an error raised from there on
\* is logged and nothing else.
NoRedirectOnceStreaming ==
  \A i, j \in 1..Len(trace) :
    (i < j /\ trace[i] = DocPipe) => ~(trace[j].obj = "res" /\ trace[j].call = "redirect")

\* C5: a render that has begun streaming reaches doc.end().
StreamingRunsToEnd ==
  (pc = "done" /\ Streaming(trace)) => Complete(trace)

----------------------------------------------------------------------------
(* parseJsonField is total *)

SampleElements ==
  { JNull, JTrue, JNum, JStr, JObj(SampleMembers), JArr(<<>>), JArr(<<JNull>>) }

\* the arrays short enough for their text to be among the inputs
SampleArrays == UNION { [1..n -> SampleElements] : n \in 0..((MaxLen - 1) \div 2) }

\* C6: parseJsonField never raises and always returns an array: the empty one
\* for null, undefined, the empty string, malformed JSON and JSON that is not
\* an array, and for the text of an array that array.
ParseJsonFieldTotal ==
  parsed.called =>
    /\ ~parsed.threw
    /\ parsed.val.k = "array"
    /\ (value.ty # "string" \/ value.toks = <<>>) => parsed.val = fallback
    /\ parsed.val # fallback => value = JsonStringify(parsed.val.e)
    /\ \A a \in SampleArrays : value = JsonStringify(a) => parsed.val = JArr(a)

\* the malformed text "[null" has been normalized to the empty array
ParseJsonFieldTotalWitness ==
  /\ parsed.called
  /\ value = Text(<<Lex("["), Lex("null")>>)
  /\ parsed.val = fallback

----------------------------------------------------------------------------
(* Legacy fallbacks *)

\* the list column decodes to the empty list
DecodesEmpty(text) == text \in { NullText, UndefinedText, Text(<<>>), JsonStringify(<<>>) }

LegacyAcademicEntry(r) ==
  JObj([institute |-> r.academic_institute, degree |-> r.academic_degree,
        year |-> r.academic_year, grade |-> r.academic_grade])

AnyLegacyAcademic(r) ==
  \E c \in { "academic_institute", "academic_degree", "academic_year", "academic_grade" } :
    Truthy(r[c])

\* C7: the academic list is the decoded academic_entries when that is not
\* empty; otherwise one entry carrying the four legacy columns if one of them
\* is non-empty; otherwise empty.
AcademicFallback ==
  Rendered =>
    LET r == TheRow IN
      IF ~DecodesEmpty(r.academic_entries)
        THEN r.academic_entries = JsonStringify(document.academicList)
      ELSE IF AnyLegacyAcademic(r)
        THEN document.academicList = <<LegacyAcademicEntry(r)>>
      ELSE document.academicList = <<>>

\* only the legacy year is set, and the list is the one synthesized entry
AcademicFallbackWitness ==
  /\ Rendered
  /\ DecodesEmpty(TheRow.academic_entries)
  /\ Truthy(TheRow.academic_year) /\ ~Truthy(TheRow.academic_institute)
  /\ document.academicList = <<LegacyAcademicEntry(TheRow)>>

\* legacy institute and degree set, legacy year and grade empty, no entries
LegacyDegreeOnly(r) ==
  /\ DecodesEmpty(r.academic_entries)
  /\ Truthy(r.academic_institute) /\ Truthy(r.academic_degree)
  /\ ~Truthy(r.academic_year) /\ ~Truthy(r.academic_grade)

AnyLegacyExperience(r) ==
  \E c \in { "company_name", "job_duration", "job_responsibilities" } : Truthy(r[c])

\* C9: the Work Experience heading is written once for every record; with no
\* entries and no legacy column the section is the line "No experience
\* provided"; with no entries and a legacy column it is the one legacy entry.
ExperienceFallback ==
  Rendered =>
    LET r == TheRow IN
      /\ HeadingCount(trace, "Work Experience") = 1
      /\ DecodesEmpty(r.job_experiences) =>
           SectionTexts(trace, "Work Experience") =
             IF AnyLegacyExperience(r)
               THEN << <<OrElse(r.company_name, "Company N/A")>>,
                       <<"Duration: ", OrElse(r.job_duration, "N/A")>>,
                       <<OrElse(r.job_responsibilities, "Responsibilities not provided")>> >>
               ELSE << <<"No experience provided">> >>

----------------------------------------------------------------------------
(* The photo *)

ValidPhoto == "/uploads/1-300.png"

HasImage(tr) == \E i \in 1..Len(tr) : tr[i].obj = "doc" /\ tr[i].call = "image"

\* C10: whatever photo_path holds, the sections from About Me on are written as
\* they are for the same record with a valid photo; an embedding failure is
\* logged; the image is embedded only if photo_path names an existing file.
PhotoNeverBlocks ==
  Rendered =>
    LET r == TheRow IN
      /\ Positions(trace, DocHeading("About Me")) # {}
      /\ FromAbout(trace) = FromAbout(RenderResume([r EXCEPT !.photo_path = ValidPhoto]).trace)
      /\ HasImage(trace) => (Truthy(r.photo_path) /\ r.photo_path \in ExistingFiles)
      /\ (r.photo_path \in ExistingFiles \ EmbeddableFiles) =>
           (~HasImage(trace) /\ Positions(trace, ConsoleWarn("Unable to embed photo:")) # {})

\* a file that exists and cannot be embedded: logged, and the document finished
PhotoNeverBlocksWitness ==
  /\ Rendered /\ Complete(trace)
  /\ TheRow.photo_path \in ExistingFiles \ EmbeddableFiles
  /\ Positions(trace, ConsoleWarn("Unable to embed photo:")) # {}
  /\ ~HasImage(trace)

----------------------------------------------------------------------------
(* Saving *)

Ids(table) == { r.id : r \in table }

Owners(table) == { r.user_id : r \in table }

\* the save in slot s takes its write step
Writes(s) == saves[s].pc = "write" /\ saves'[s].pc # "write"

\* C11: however POST /api/resume requests interleave, two first saves of one
\* user that both saw no row included, the table holds at most one row per
\* user_id; a save that saw a row writes to that row and adds none.
OneRowPerUser ==
  /\ [](\A r1, r2 \in resumes : r1.user_id = r2.user_id => r1 = r2)
  /\ [][\A s \in SaveSlots :
          (Writes(s) /\ saves[s].existing # {}) =>
            /\ saves[s].op = "update"
            /\ Ids(resumes') = Ids(resumes)
            /\ Owners(resumes') = Owners(resumes)
            /\ \A r \in resumes' \ resumes : r.user_id = saves[s].userId]_vars

\* two saves of one user both saw no row; one has inserted, the other is about to
OneRowPerUserWitness ==
  \E s1, s2 \in SaveSlots :
    /\ s1 # s2
    /\ saves[s1].userId = saves[s2].userId
    /\ saves[s1].op = "insert" /\ saves[s1].pc = "done" /\ saves[s1].status = 200
    /\ saves[s2].op = "insert" /\ saves[s2].pc = "write" /\ saves[s2].existing = {}
    /\ Cardinality(SelectResume(resumes, saves[s1].userId)) = 1

----------------------------------------------------------------------------
(* The gate *)

InHandler(slot) == slot.pc \in { "select", "write", "reselect" }

OwnRows(json, userId) == \A r \in json : r.user_id = userId

\* a request to POST /api/resume arrives in slot s
Arrives(s) == saves[s].pc \in { "free", "done" } /\ saves'[s] # saves[s]

\* C12: whatever registrations, logins, logouts and requests came before, a
\* request whose session has no userId is redirected to /login by GET
\* /resume/pdf and answered 401 by GET and POST /api/resume, and no row is
\* read, written or rendered for it; a session gets its userId only from a
\* login as a registered user, and every request served is served that user's
\* own row.
GateHolds ==
  /\ [](/\ \A s \in SaveSlots :
             /\ InHandler(saves[s]) => saves[s].userId # 0
             /\ saves[s].userId = 0 => saves[s] \in { FreeSlot, Answered(FreeSlot, 401) }
             /\ OwnRows(saves[s].json, saves[s].userId)
             /\ OwnRows(saves[s].existing, saves[s].userId)
        /\ api.route = "GET /api/resume" =>
             /\ api.userId = 0 => (api.status = 401 /\ api.json = {})
             /\ OwnRows(api.json, api.userId)
        /\ pc = "query" => reqUser # 0
        /\ reqUser = 0 => (document = NoDocument /\ trace \in { <<>>, <<ResRedirect("/login")>> })
        /\ session.userId # 0 =>
             \E u \in users : session = [userId |-> u.id, name |-> u.name, email |-> u.email])
  /\ [][/\ \A s \in SaveSlots :
             Arrives(s) =>
               IF session.userId = 0
                 THEN /\ saves'[s] = Answered(FreeSlot, 401)
                      /\ resumes' = resumes /\ uploads' = uploads
                 ELSE saves'[s].userId = session.userId
        /\ api' # api /\ api'.route = "GET /api/resume" =>
             IF session.userId = 0 THEN api'.status = 401 /\ api'.json = {}
             ELSE api'.userId = session.userId
        /\ (pc \in { "idle", "done" } /\ <<pc, trace, reqUser, document>>' # <<pc, trace, reqUser, document>>) =>
             IF session.userId = 0
               THEN /\ pc' = "done" /\ trace' = <<ResRedirect("/login")>>
                    /\ document' = NoDocument /\ reqUser' = 0
               ELSE pc' = "query" /\ reqUser' = session.userId
        /\ (pc = "query" /\ pc' = "done" /\ document'.built) =>
             \E r \in SelectResume(resumes, reqUser) : document' = Normalize(r)
        /\ resumes' # resumes =>
             \E s \in SaveSlots :
               /\ Writes(s) /\ saves[s].userId # 0
               /\ \A r \in (resumes' \ resumes) \cup (resumes \ resumes') :
                    r.user_id = saves[s].userId
        /\ session'.userId \notin { 0, session.userId } =>
             /\ users' = users
             /\ \E u \in users : u.id = session'.userId]_vars

\* after a logout, with a row stored, all three endpoints have turned the session away
GateHoldsWitness ==
  /\ session = NoSession
  /\ resumes # {}
  /\ saves[1] = Answered(FreeSlot, 401)
  /\ api = Answer("GET /api/resume", 0, 401, {})
  /\ pc = "done" /\ trace = <<ResRedirect("/login")>>

----------------------------------------------------------------------------
(* The legacy columns *)

\* the save in slot s has been answered with the stored row
Saved(s) == saves[s].pc = "done" /\ saves[s].status = 200

\* C13: after a successful POST /api/resume whose job_experiences list is not
\* empty, the stored company_name, job_duration and job_responsibilities are
\* the company, duration and responsibilities of the first entry of the list,
\* whatever the request sent for the three legacy fields.
LegacyMirrorsPrimary ==
  \A s \in SaveSlots :
    Saved(s) =>
      LET b == saves[s].body
          experienceList == parseJsonField(b.job_experiences).val.e
          primary == primaryExperience(experienceList)
      IN Len(experienceList) > 0 =>
           \A r \in SelectResume(resumes, saves[s].userId) :
             /\ r.company_name = mirrorPrimary(b.company_name, Get(primary, "company"))
             /\ r.job_duration = mirrorPrimary(b.job_duration, Get(primary, "duration"))
             /\ r.job_responsibilities =
                  mirrorPrimary(b.job_responsibilities, Get(primary, "responsibilities"))

====
